---- MODULE Spec2Model ----
(***************************************************************************)
(* Model of bayespy/inference/vmp/nodes/dirichlet.py: the moments classes  *)
(* DirichletPriorMoments and DirichletMoments, the DirichletDistribution   *)
(* engine and the Dirichlet node wrapper.                                   *)
(*                                                                          *)
(* Numbers.  Concentration parameters (alpha, phi) are integers.            *)
(* Probabilities (p) are fixed-point integers in units of 1e-8, so that    *)
(* numpy's allclose tolerance (atol 1e-8, rtol 1e-5) is exact.  A quotient *)
(* of two such numbers is a reduced fraction <<n, d>>.  Values of the      *)
(* special functions (gammaln, psi, polygamma, log) are extended reals:    *)
(* integer combinations of atoms <<f, n, d>> (f applied to n/d), or an     *)
(* infinity, or nan.                                                        *)
(***************************************************************************)
EXTENDS Integers, Sequences, FiniteSets, TLC

VARIABLES mem, obj, orig, op, arg, ret, node, rng, prev

vars == <<mem, obj, orig, op, arg, ret, node, rng, prev>>

\* ------------------------------------------------------------------ bounds
MaxK == 2
MaxPlates == 2
MaxCells == 4
RngStates == 3

\* --------------------------------------------------------- program constants
\* 1.0 in units of 1e-8 (the 1.0 of np.allclose(..., 1.0))
One == 100000000
\* numpy.allclose defaults: atol = 1e-8, rtol = 1e-5, in units of 1e-8 * |1.0|
Atol == 1
RtolTimesOne == 1000

\* ------------------------------------------------------------ extended reals
Fin(T) == [k |-> "fin", t |-> T]
PosInf == [k |-> "+inf", t |-> {}]
NegInf == [k |-> "-inf", t |-> {}]
NaN == [k |-> "nan", t |-> {}]
Zero == Fin({})
Atom(f, n, d) == Fin({<<(<<f, n, d>>), 1>>})

Coef(T, a) == IF \E c \in T : c[1] = a THEN (CHOOSE c \in T : c[1] = a)[2] ELSE 0

AddTerms(S, T) ==
    LET A == {c[1] : c \in S \cup T}
        N == {a \in A : Coef(S, a) + Coef(T, a) # 0}
    IN  {<<a, Coef(S, a) + Coef(T, a)>> : a \in N}

\* IEEE addition: nan absorbs, inf + (-inf) = nan
Add(x, y) ==
    IF x.k = "nan" \/ y.k = "nan" THEN NaN
    ELSE IF x.k = "fin" /\ y.k = "fin" THEN Fin(AddTerms(x.t, y.t))
    ELSE IF x.k = "fin" THEN y
    ELSE IF y.k = "fin" THEN x
    ELSE IF x.k = y.k THEN x
    ELSE NaN

Neg(x) ==
    IF x.k = "fin" THEN Fin({<<c[1], 0 - c[2]>> : c \in x.t})
    ELSE IF x.k = "+inf" THEN NegInf
    ELSE IF x.k = "-inf" THEN PosInf
    ELSE NaN

Sub(x, y) == Add(x, Neg(y))

\* n * x for an integer n: 0 * inf = nan
Scale(n, x) ==
    IF x.k = "nan" THEN NaN
    ELSE IF x.k = "fin" THEN (IF n = 0 THEN Zero ELSE Fin({<<c[1], n * c[2]>> : c \in x.t}))
    ELSE IF n = 0 THEN NaN
    ELSE IF n > 0 THEN x
    ELSE Neg(x)

\* scipy.special.gammaln at an integer: poles at n <= 0, zero at 1 and 2
gammaln(n) ==
    IF n <= 0 THEN PosInf
    ELSE IF n <= 2 THEN Zero
    ELSE Atom("gammaln", n, 1)

\* scipy.special.psi at an integer
psi(n) ==
    IF n < 0 THEN NaN
    ELSE IF n = 0 THEN NegInf
    ELSE Atom("psi", n, 1)

\* scipy.special.polygamma(1, .) at an integer
polygamma1(n) ==
    IF n <= 0 THEN PosInf
    ELSE Atom("polygamma1", n, 1)

RECURSIVE Gcd(_, _)
Gcd(a, b) == IF b = 0 THEN a ELSE Gcd(b, a % b)

\* true division a / b of two fixed-point numbers, b > 0, 0 <= a
Frac(a, b) ==
    LET g == Gcd(a, b)
    IN  <<a \div g, b \div g>>

\* np.log of a non-negative fraction
log(q) ==
    IF q[1] = 0 THEN NegInf
    ELSE IF q[1] = q[2] THEN Zero
    ELSE Atom("log", q[1], q[2])

\* a caller's array-like: arr tells whether it is an ndarray (which
\* np.asanyarray returns as it is) or a Python scalar / list (which it copies)
Input(arr, nd, v) == [arr |-> arr, nd |-> nd, v |-> v]

\* ------------------------------------------------------------------ arrays
\* an ndarray: its shape and its entries in row-major order
Array(s, d) == [shape |-> s, data |-> d]

RECURSIVE Flatten(_)
Flatten(rows) ==
    IF rows = <<>> THEN <<>> ELSE Head(rows) \o Flatten(Tail(rows))

\* np.asanyarray of a Python scalar, list or list of lists
asanyarray(x) ==
    IF x.nd = 0 THEN Array(<<>>, <<x.v>>)
    ELSE IF x.nd = 1 THEN Array(<<Len(x.v)>>, x.v)
    ELSE Array(<<Len(x.v), Len(x.v[1])>>, Flatten(x.v))

ndim(a) == Len(a.shape)

\* length of the trailing axis
LastDim(a) == a.shape[Len(a.shape)]

\* number of rows along the trailing axis
Rows(a) == Len(a.data) \div LastDim(a)

Row(a, r) == SubSeq(a.data, (r - 1) * LastDim(a) + 1, r * LastDim(a))

RowOf(a, i) == ((i - 1) \div LastDim(a)) + 1

\* entry (r, k) of an ndarray whose trailing axis has length K
At(a, r, k, K) == a.data[(r - 1) * K + k]

RECURSIVE SumInt(_)
SumInt(s) == IF s = <<>> THEN 0 ELSE Head(s) + SumInt(Tail(s))

RECURSIVE SumReal(_)
SumReal(s) == IF s = <<>> THEN Zero ELSE Add(Head(s), SumReal(Tail(s)))

LeadShape(a) == SubSeq(a.shape, 1, Len(a.shape) - 1)

\* np.sum(a, axis=-1) of an integer array
sum_last(a) == Array(LeadShape(a), [r \in 1..Rows(a) |-> SumInt(Row(a, r))])

\* np.sum(a, axis=-1) of an array of extended reals
sum_last_real(a) == Array(LeadShape(a), [r \in 1..Rows(a) |-> SumReal(Row(a, r))])

\* np.sum(a, axis=-1, keepdims=True) of an integer array
sum_last_keepdims(a) ==
    Array(LeadShape(a) \o <<1>>, [r \in 1..Rows(a) |-> SumInt(Row(a, r))])

\* special.gammaln, special.psi and np.log of an array, element-wise
gammaln_arr(a) == Array(a.shape, [i \in 1..Len(a.data) |-> gammaln(a.data[i])])

psi_arr(a) == Array(a.shape, [i \in 1..Len(a.data) |-> psi(a.data[i])])

log_arr(a) == Array(a.shape, [i \in 1..Len(a.data) |-> log(a.data[i])])

\* a - b, element-wise, shapes equal
SubArr(a, b) == Array(a.shape, [i \in 1..Len(a.data) |-> Sub(a.data[i], b.data[i])])

\* a slip: the subtrahend of the first plate taken for every plate
SubBroadcast_first_plate(a, b) ==
    Array(a.shape, [i \in 1..Len(a.data) |-> Sub(a.data[i], b.data[1])])

\* a - b where b has the shape of a with a trailing axis of length 1 (broadcast)
SubBroadcast(a, b) ==
    Array(a.shape, [i \in 1..Len(a.data) |-> Sub(a.data[i], b.data[RowOf(a, i)])])

\* a / b for integer arrays, b of a's shape with trailing axis 1; a new array
true_divide(a, b) ==
    Array(a.shape, [i \in 1..Len(a.data) |-> Frac(a.data[i], b.data[RowOf(a, i)])])

\* a slip: the sign forgotten
NegArr_unsigned(a) == a

NegArr(a) == Array(a.shape, [i \in 1..Len(a.data) |-> Neg(a.data[i])])

\* a slip: < for <=
any_le_strict(a, c) == \E i \in 1..Len(a.data) : a.data[i] < c

\* np.any(a < c), np.any(a <= c), np.any(a > c)
any_lt(a, c) == \E i \in 1..Len(a.data) : a.data[i] < c
any_le(a, c) == \E i \in 1..Len(a.data) : a.data[i] <= c
any_gt(a, c) == \E i \in 1..Len(a.data) : a.data[i] > c

Abs(n) == IF n < 0 THEN 0 - n ELSE n

\* a slip: exact comparison with 1.0
allclose_one_exact(a) == \A i \in 1..Len(a.data) : a.data[i] = One

\* np.allclose(a, 1.0): |a - 1.0| <= atol + rtol * |1.0| at every entry
allclose_one(a) == \A i \in 1..Len(a.data) : Abs(a.data[i] - One) <= Atol + RtolTimesOne

\* np.asanyarray of a Python list of arrays of one shape: a new leading axis
asanyarray_list(l) ==
    Array(<<Len(l)>> \o asanyarray(l[1]).shape,
          Flatten([j \in 1..Len(l) |-> asanyarray(l[j]).data]))

\* ---------------------------------------------------------------- outcomes
\* what a call leaves behind: the exception raised ("none" when it returns),
\* the value returned, the receiver and the caller's argument after the call
Outcome(e, v, s, x) == [exc |-> e, val |-> v, self |-> s, x |-> x]

Raise(e, s, x) == Outcome(e, <<>>, s, x)

Return(v, s, x) == Outcome("none", v, s, x)

\* ------------------------------------------------- class DirichletPriorMoments
DirichletPriorMoments(categories) ==
    [cls |-> "DirichletPriorMoments", categories |-> categories,
     dims |-> << <<categories>>, <<>> >>]

\* a slip: the check for negative sample sizes left out
DirichletPriorMoments_compute_fixed_moments_unchecked(self, alpha) ==
    LET a == asanyarray(alpha)
    IN  IF ndim(a) < 1 THEN Raise("ValueError", self, alpha)
        ELSE LET gammaln_sum == gammaln_arr(sum_last(a))
                 sum_gammaln == sum_last_real(gammaln_arr(a))
                 z == SubArr(gammaln_sum, sum_gammaln)
             IN  Return(<<a, z>>, self, alpha)

DirichletPriorMoments_compute_fixed_moments(self, alpha) ==
    LET a == asanyarray(alpha)
    IN  IF ndim(a) < 1 THEN Raise("ValueError", self, alpha)
        ELSE IF any_lt(a, 0) THEN Raise("ValueError", self, alpha)
        ELSE LET gammaln_sum == gammaln_arr(sum_last(a))
                 sum_gammaln == sum_last_real(gammaln_arr(a))
                 z == SubArr(gammaln_sum, sum_gammaln)
             IN  Return(<<a, z>>, self, alpha)

\* a slip: the leading axis taken for the trailing one
DirichletPriorMoments_from_values_leading(alpha) ==
    IF alpha.nd < 1 THEN Raise("ValueError", <<>>, alpha)
    ELSE LET categories == asanyarray(alpha).shape[1]
         IN  Return(DirichletPriorMoments(categories), <<>>, alpha)

DirichletPriorMoments_from_values(alpha) ==
    IF alpha.nd < 1 THEN Raise("ValueError", <<>>, alpha)
    ELSE LET categories == LastDim(asanyarray(alpha))
         IN  Return(DirichletPriorMoments(categories), <<>>, alpha)

\* ------------------------------------------------------ class DirichletMoments
DirichletMoments(categories) ==
    [cls |-> "DirichletMoments", categories |-> categories,
     dims |-> << <<categories>> >>]

\* p * 1.0 / s in fixed point, for s within tolerance of 1.0
Renormalised(n, s) == n - ((n \div 1000) * (s - One)) \div (One \div 1000)

\* the caller's ndarray after p /= np.sum(p, axis=-1, keepdims=True)
DividedInPlace(p) ==
    IF ~ p.arr THEN p
    ELSE IF p.nd = 1
    THEN [p EXCEPT !.v = [k \in 1..Len(p.v) |-> Renormalised(p.v[k], SumInt(p.v))]]
    ELSE [p EXCEPT !.v = [r \in 1..Len(p.v) |->
              [k \in 1..Len(p.v[r]) |-> Renormalised(p.v[r][k], SumInt(p.v[r]))]]]

\* a slip: the normalisation done in place (p /= ...) instead of p = p / ...
DirichletMoments_compute_fixed_moments_in_place(self, p) ==
    LET a == asanyarray(p)
    IN  IF ndim(a) < 1 THEN Raise("ValueError", self, p)
        ELSE IF any_lt(a, 0) \/ any_gt(a, One) THEN Raise("ValueError", self, p)
        ELSE IF ~ allclose_one(sum_last(a)) THEN Raise("ValueError", self, p)
        ELSE LET q == true_divide(a, sum_last_keepdims(a))
                 logp == log_arr(q)
                 u == <<logp>>
             IN  Return(u, self, DividedInPlace(p))

DirichletMoments_compute_fixed_moments(self, p) ==
    LET a == asanyarray(p)
    IN  IF ndim(a) < 1 THEN Raise("ValueError", self, p)
        ELSE IF any_lt(a, 0) \/ any_gt(a, One) THEN Raise("ValueError", self, p)
        ELSE IF ~ allclose_one(sum_last(a)) THEN Raise("ValueError", self, p)
        ELSE LET q == true_divide(a, sum_last_keepdims(a))
                 logp == log_arr(q)
                 u == <<logp>>
             IN  Return(u, self, p)

DirichletMoments_from_values(x) ==
    IF x.nd < 1 THEN Raise("ValueError", <<>>, x)
    ELSE LET categories == LastDim(asanyarray(x))
         IN  Return(DirichletMoments(categories), <<>>, x)

\* ------------------------------------------------- class DirichletDistribution
DirichletDistribution == [cls |-> "DirichletDistribution"]

\* a slip: an empty message returned
DirichletDistribution_compute_message_to_parent_empty(parent, index, u_self, u_alpha) ==
    Return(<<>>, DirichletDistribution, <<parent, index, u_self, u_alpha>>)

DirichletDistribution_compute_message_to_parent(parent, index, u_self, u_alpha) ==
    Raise("NotImplementedError", DirichletDistribution, <<parent, index, u_self, u_alpha>>)

\* a slip: the parent's second moment taken for the first
DirichletDistribution_compute_phi_from_parents_second(u_alpha, mask) ==
    Return(<<u_alpha[2]>>, DirichletDistribution, u_alpha)

DirichletDistribution_compute_phi_from_parents(u_alpha, mask) ==
    Return(<<u_alpha[1]>>, DirichletDistribution, u_alpha)

DirichletDistribution_compute_moments_and_cgf(phi, mask) ==
    IF any_le(asanyarray_list(phi), 0)
    THEN Raise("ValueError", DirichletDistribution, phi)
    ELSE LET phi0 == asanyarray(phi[1])
             sum_gammaln == sum_last_real(gammaln_arr(phi0))
             gammaln_sum == gammaln_arr(sum_last(phi0))
             psi_sum == psi_arr(sum_last_keepdims(phi0))
             u0 == SubBroadcast(psi_arr(phi0), psi_sum)
             u == <<u0>>
             g == SubArr(gammaln_sum, sum_gammaln)
         IN  Return(<<u, g>>, DirichletDistribution, phi)

\* a slip: the moments kept from the last compute_moments_and_cgf handed out
DirichletDistribution_compute_cgf_from_parents_kept(u_alpha) ==
    IF op = "compute_moments_and_cgf" /\ ret.exc = "none"
    THEN Return(ret.val[1][1], DirichletDistribution, u_alpha)
    ELSE Return(u_alpha[2], DirichletDistribution, u_alpha)

DirichletDistribution_compute_cgf_from_parents(u_alpha) ==
    Return(u_alpha[2], DirichletDistribution, u_alpha)

DirichletDistribution_compute_fixed_moments_and_f(p, mask) ==
    LET a == asanyarray(p)
    IN  IF ndim(a) < 1 THEN Raise("ValueError", DirichletDistribution, p)
        ELSE IF any_lt(a, 0) \/ any_gt(a, One)
             THEN Raise("ValueError", DirichletDistribution, p)
        ELSE IF ~ allclose_one(sum_last(a))
             THEN Raise("ValueError", DirichletDistribution, p)
        ELSE LET q == true_divide(a, sum_last_keepdims(a))
                 logp == log_arr(q)
                 u == <<logp>>
                 f == NegArr(sum_last_real(logp))
             IN  Return(<<u, f>>, DirichletDistribution, p)

\* an ndarray handed on as an argument (np.asanyarray returns it as it is)
as_input(a) ==
    IF ndim(a) = 0 THEN Input(TRUE, 0, a.data[1])
    ELSE IF ndim(a) = 1 THEN Input(TRUE, 1, a.data)
    ELSE Input(TRUE, 2, [r \in 1..Rows(a) |-> Row(a, r)])

\* bayespy.utils.random.dirichlet(alpha, size): one Gamma draw per category and
\* plate from the global generator in state s, normalised over the trailing
\* axis; size, when given, is the batch shape, against which alpha's plates
\* broadcast; a Gamma draw needs a positive shape parameter
random_draws(alpha, size, s) ==
    LET K == LastDim(alpha)
        P == IF size.given THEN size.shape[1] ELSE Rows(alpha)
        src(r) == IF Rows(alpha) = 1 THEN 1 ELSE r
        gamma(r, k) == At(alpha, src(r), k, K) + ((s + (r - 1) * K + k) % RngStates)
        total(r) == SumInt([k \in 1..K |-> gamma(r, k)])
    IN  Array(IF size.given THEN size.shape \o <<K>> ELSE alpha.shape,
              Flatten([r \in 1..P |-> [k \in 1..K |-> Frac(gamma(r, k), total(r))]]))

random_dirichlet(alpha, size, s) ==
    IF any_le(alpha, 0) THEN [exc |-> "ValueError", val |-> <<>>]
    ELSE IF size.given /\ Rows(alpha) # 1 /\ Rows(alpha) # size.shape[1]
    THEN [exc |-> "ValueError", val |-> <<>>]
    ELSE [exc |-> "none", val |-> random_draws(alpha, size, s)]

\* the generator's state after a call
random_advance(s) == (s + 1) % RngStates

DirichletDistribution_random(phi, plates) ==
    LET d == random_dirichlet(asanyarray(phi[1]), plates, rng)
    IN  Outcome(d.exc, d.val, DirichletDistribution, phi)

DirichletDistribution_compute_gradient(g, u, phi) ==
    LET phi0 == asanyarray(phi[1])
        g0 == asanyarray(g[1])
        sum_phi == sum_last_keepdims(phi0)
        d0 == Array(phi0.shape,
                    [i \in 1..Len(phi0.data) |->
                        Scale(g0.data[i],
                              Sub(polygamma1(phi0.data[i]),
                                  polygamma1(sum_phi.data[RowOf(phi0, i)])))])
    IN  Return(<<d0>>, DirichletDistribution, phi)

\* ---------------------------------------------------------------- class Dirichlet
\* Constant(moments, x): a constant node holding the moments of the value x,
\* their dims and the value's plates
Constant(moments, x) ==
    LET u == DirichletPriorMoments_compute_fixed_moments(moments, x)
    IN  IF u.exc # "none" THEN u
        ELSE Return([moments |-> moments, dims |-> moments.dims,
                     plates |-> LeadShape(asanyarray(x)), u |-> u.val],
                    <<>>, x)

\* Node._ensure_moments(alpha, DirichletPriorMoments) for a concrete value
ensure_moments(alpha) ==
    LET m == DirichletPriorMoments_from_values(alpha)
    IN  IF m.exc # "none" THEN m ELSE Constant(m.val, alpha)

\* Node._total_plates(None, parent_plates)
total_plates(plates, parent_plates) == parent_plates

\* _constructor once alpha is a node with PriorMoments: the tuple returned
constructor_tuple(alpha, kwargs) ==
    LET parent_moments == <<alpha.moments>>
        parents == <<alpha>>
        categories == alpha.dims[1][1]
        moments == DirichletMoments(categories)
    IN  [parents |-> parents, kwargs |-> kwargs, dims |-> moments.dims,
         plates |-> total_plates(kwargs.plates, alpha.plates),
         distribution |-> DirichletDistribution,
         moments |-> moments, parent_moments |-> parent_moments]

Dirichlet__constructor(alpha, kwargs) ==
    LET e == ensure_moments(alpha)
    IN  IF e.exc # "none" THEN e
        ELSE Return(constructor_tuple(e.val, kwargs), <<>>, alpha)

\* the node the base class builds from the constructor's tuple, its phi
\* initialised from the parent's moments
new_node(t) ==
    [built |-> TRUE, parents |-> t.parents, dims |-> t.dims, plates |-> t.plates,
     moments |-> t.moments, parent_moments |-> t.parent_moments,
     phi |-> DirichletDistribution_compute_phi_from_parents(t.parents[1].u, TRUE).val]

\* Dirichlet(alpha)
Dirichlet(alpha) ==
    LET c == Dirichlet__constructor(alpha, [plates |-> "None"])
    IN  IF c.exc # "none" THEN c ELSE Return(new_node(c.val), <<>>, alpha)

\* ------------------------------------------------------------------ inputs
Vec(K, V) == [1..K -> V]

Mat(P, K, V) == [1..P -> [1..K -> V]]

Scalars(V) == {Input(b, 0, v) : b \in BOOLEAN, v \in V}

Vectors(V) == UNION {{Input(b, 1, v) : b \in BOOLEAN, v \in Vec(K, V)} : K \in 1..MaxK}

\* the shapes <<P, K>> of the batches: P plates of K categories
Shapes == {sh \in (1..MaxPlates) \X (1..MaxK) : sh[1] * sh[2] <= MaxCells}

Matrices(W) ==
    UNION {{Input(b, 2, v) : b \in BOOLEAN, v \in Mat(sh[1], sh[2], W)} : sh \in Shapes}

\* concentration parameters: invalid, zero, and positive ones
AlphaVals == {0 - 1, 0, 1, 3}

AlphaPlateVals == {0, 1, 3}

\* probabilities: -0.1, 0, 0.4, 0.5, 0.5 + 5e-6, 0.5 + 2e-5, 1, 1.1
PVals ==
    {0 - One \div 10, 0, 4 * (One \div 10), One \div 2, One \div 2 + 500,
     One \div 2 + 2000, One, One + One \div 10}

PPlateVals == {0, One \div 2, One \div 2 + 500}

AllInputs ==
    Scalars(AlphaVals \cup PVals) \cup Vectors(AlphaVals) \cup Vectors(PVals)
    \cup Matrices(AlphaPlateVals) \cup Matrices(PPlateVals)

\* ------------------------------------------------------------------- state
\* mem   the caller's array, passed to every call
\* obj   the moments objects the calls are made on
\* orig  mem and obj as they were before the first call
\* op, arg, ret   the last call: its name, what it was given, its outcome
NoCall == [exc |-> "none", val |-> <<>>]

NoNode == [built |-> FALSE]

Objects(c) == [prior |-> DirichletPriorMoments(c), moments |-> DirichletMoments(c)]

InitOn(S) ==
    /\ mem \in S
    /\ obj = Objects(MaxK)
    /\ orig = [mem |-> mem, obj |-> obj]
    /\ op = "start"
    /\ arg = <<>>
    /\ ret = NoCall
    /\ node = NoNode
    /\ rng = 0

Init == InitOn(AllInputs) /\ prev = [on |-> FALSE]

\* a call: what the caller passed, what came back, and what the caller's
\* array and the receiver hold afterwards
Do(name, a, o, m, ob) ==
    /\ op' = name
    /\ arg' = a
    /\ ret' = [exc |-> o.exc, val |-> o.val]
    /\ mem' = m
    /\ obj' = ob
    /\ prev' \in (IF prev.on
                  THEN {prev, [on |-> TRUE, op |-> op, arg |-> arg, ret |-> ret]}
                  ELSE {prev})
    /\ UNCHANGED <<orig, node>>

PriorComputeFixedMoments ==
    LET o == DirichletPriorMoments_compute_fixed_moments(obj.prior, mem)
    IN  /\ Do("DirichletPriorMoments.compute_fixed_moments", mem, o,
              o.x, [obj EXCEPT !.prior = o.self])
        /\ UNCHANGED rng

PriorFromValues ==
    LET o == DirichletPriorMoments_from_values(mem)
    IN  /\ Do("DirichletPriorMoments.from_values", mem, o, o.x, obj)
        /\ UNCHANGED rng

MomentsComputeFixedMoments ==
    LET o == DirichletMoments_compute_fixed_moments(obj.moments, mem)
    IN  /\ Do("DirichletMoments.compute_fixed_moments", mem, o,
              o.x, [obj EXCEPT !.moments = o.self])
        /\ UNCHANGED rng

MomentsFromValues ==
    LET o == DirichletMoments_from_values(mem)
    IN  /\ Do("DirichletMoments.from_values", mem, o, o.x, obj)
        /\ UNCHANGED rng

ComputeMessageToParent ==
    \E parent \in {"none", "alpha"}, index \in {0, 1} :
        LET o == DirichletDistribution_compute_message_to_parent(
                     parent, index, <<mem>>, <<mem>>)
        IN  /\ Do("compute_message_to_parent", <<parent, index, <<mem>>, <<mem>> >>,
                  o, o.x[3][1], obj)
            /\ UNCHANGED rng

\* the moments of the caller's prior value, as the parent (a constant) holds
\* them, handed to the engine; a value the parent refuses is never handed on
ComputePhiFromParents ==
    \E mask \in BOOLEAN :
        LET m == DirichletPriorMoments_compute_fixed_moments(obj.prior, mem)
            o == IF m.exc = "none"
                 THEN DirichletDistribution_compute_phi_from_parents(m.val, mask)
                 ELSE m
        IN  /\ Do("compute_phi_from_parents", [alpha |-> mem, u_alpha |-> m.val],
                  o, m.x, [obj EXCEPT !.prior = m.self])
            /\ UNCHANGED rng

ComputeMomentsAndCgf ==
    \E mask \in BOOLEAN :
        /\ mem.nd >= 1
        /\ LET o == DirichletDistribution_compute_moments_and_cgf(<<mem>>, mask)
           IN  Do("compute_moments_and_cgf", <<mem>>, o, o.x[1], obj)
        /\ UNCHANGED rng

ComputeCgfFromParents ==
    LET m == DirichletPriorMoments_compute_fixed_moments(obj.prior, mem)
        o == IF m.exc = "none"
             THEN DirichletDistribution_compute_cgf_from_parents(m.val)
             ELSE m
    IN  /\ Do("compute_cgf_from_parents", [alpha |-> mem, u_alpha |-> m.val],
              o, m.x, [obj EXCEPT !.prior = m.self])
        /\ UNCHANGED rng

ComputeFixedMomentsAndF ==
    \E mask \in BOOLEAN :
        LET o == DirichletDistribution_compute_fixed_moments_and_f(mem, mask)
        IN  /\ Do("compute_fixed_moments_and_f", mem, o, o.x, obj)
            /\ UNCHANGED rng

\* what the base class does with a prior value right after construction: the
\* parent's moments, the natural parameters from them, the moments of those
InitialMoments ==
    \E mask \in BOOLEAN :
        LET m == DirichletPriorMoments_compute_fixed_moments(obj.prior, mem)
            phi == IF m.exc = "none"
                   THEN DirichletDistribution_compute_phi_from_parents(m.val, mask).val
                   ELSE <<>>
            o == IF m.exc = "none"
                 THEN DirichletDistribution_compute_moments_and_cgf(
                          <<as_input(phi[1])>>, mask)
                 ELSE m
        IN  /\ Do("initial_moments",
                  [alpha |-> mem, accepted |-> m.exc = "none", phi |-> phi],
                  o, m.x, [obj EXCEPT !.prior = m.self])
            /\ UNCHANGED rng

Next ==
    \/ PriorComputeFixedMoments
    \/ PriorFromValues
    \/ MomentsComputeFixedMoments
    \/ MomentsFromValues
    \/ ComputeMessageToParent
    \/ ComputePhiFromParents
    \/ ComputeMomentsAndCgf
    \/ ComputeCgfFromParents
    \/ ComputeFixedMomentsAndF
    \/ InitialMoments

Spec == Init /\ [][Next]_vars

\* ------------------------------------------------------- the engine, shared
\* the calls made through the one instance Dirichlet._distribution; prev keeps
\* one earlier call to compare the last one with
Plates == {[given |-> FALSE, shape |-> <<>>], [given |-> TRUE, shape |-> <<2>>]}

Random ==
    \E plates \in Plates :
        /\ mem.nd >= 1
        /\ LET o == DirichletDistribution_random(<<mem>>, plates)
           IN  /\ Do("random", <<mem, plates>>, o, o.x[1], obj)
               /\ rng' = IF o.exc = "none" THEN random_advance(rng) ELSE rng

ComputeGradient ==
    /\ mem.nd >= 1
    /\ LET o == DirichletDistribution_compute_gradient(<<mem>>, <<mem>>, <<mem>>)
       IN  Do("compute_gradient", <<mem>>, o, o.x[1], obj)
    /\ UNCHANGED rng

PureInputs == {Input(TRUE, 1, v) : v \in UNION {Vec(K, AlphaPlateVals) : K \in 1..MaxK}}
              \cup {Input(TRUE, 1, v) : v \in UNION {Vec(K, PPlateVals) : K \in 1..MaxK}}

InitPure ==
    /\ InitOn(PureInputs)
    /\ prev = [on |-> TRUE, op |-> op, arg |-> arg, ret |-> ret]

NextPure ==
    \/ ComputeMessageToParent
    \/ ComputePhiFromParents
    \/ ComputeMomentsAndCgf
    \/ ComputeCgfFromParents
    \/ ComputeFixedMomentsAndF
    \/ Random
    \/ ComputeGradient

SpecPure == InitPure /\ [][NextPure]_vars

\* ------------------------------------------------------------ the node's life
Construct ==
    LET o == Dirichlet(mem)
    IN  /\ op' = "Dirichlet"
        /\ arg' = mem
        /\ ret' = [exc |-> o.exc, val |-> <<>>]
        /\ node' = IF o.exc = "none" THEN o.val ELSE NoNode
        /\ mem' = o.x
        /\ UNCHANGED <<obj, orig, rng, prev>>

\* the moments of the node's current phi, as the base class asks for them
\* right after the initialisation from the prior
NodeMoments ==
    \E mask \in BOOLEAN :
        /\ node.built
        /\ LET o == DirichletDistribution_compute_moments_and_cgf(
                        <<as_input(node.phi[1])>>, mask)
           IN  /\ op' = "Dirichlet.moments"
               /\ arg' = node.phi
               /\ ret' = [exc |-> o.exc, val |-> o.val]
        /\ UNCHANGED <<mem, obj, orig, node, rng, prev>>

InitNode == InitOn(AllInputs) /\ prev = [on |-> FALSE]

NextNode == Construct \/ NodeMoments

SpecNode == InitNode /\ [][NextNode]_vars

\* ---------------------------------------------------------------- properties
\* the caller's value read directly, without np.asanyarray: its plates (rows),
\* its trailing-axis length and its entries
NRows(x) == IF x.nd = 1 THEN 1 ELSE Len(x.v)

NCols(x) == IF x.nd = 1 THEN Len(x.v) ELSE Len(x.v[1])

Entry(x, r, k) == IF x.nd = 1 THEN x.v[k] ELSE x.v[r][k]

ShapeOf(x) == IF x.nd = 1 THEN <<Len(x.v)>> ELSE <<Len(x.v), Len(x.v[1])>>

RECURSIVE RowSumTo(_, _, _)
RowSumTo(x, r, k) == IF k = 0 THEN 0 ELSE Entry(x, r, k) + RowSumTo(x, r, k - 1)

RowSum(x, r) == RowSumTo(x, r, NCols(x))

Cells(x) == {<<r, k>> : r \in 1..NRows(x), k \in 1..NCols(x)}

AllPositive(x) == \A c \in Cells(x) : Entry(x, c[1], c[2]) > 0

RECURSIVE GammalnRowSumTo(_, _, _)
GammalnRowSumTo(x, r, k) ==
    IF k = 0 THEN Zero ELSE Add(gammaln(Entry(x, r, k)), GammalnRowSumTo(x, r, k - 1))

\* C1: for phi = [phi0] with every entry of phi0 positive, compute_moments_and_cgf
\* returns (u, g) with u a 1-element list, u[0][r][k] = psi(phi0[r][k]) -
\* psi(sum_k phi0[r][k]) and g[r] = gammaln(sum_k phi0[r][k]) - sum_k
\* gammaln(phi0[r][k]), the sums over the trailing axis only.
C1_MomentsAndCgfFormula ==
    (op = "compute_moments_and_cgf" /\ AllPositive(arg[1])) =>
        LET x == arg[1]
            u == ret.val[1]
            g == ret.val[2]
        IN  /\ ret.exc = "none"
            /\ Len(u) = 1
            /\ u[1].shape = ShapeOf(x)
            /\ \A c \in Cells(x) :
                   At(u[1], c[1], c[2], NCols(x))
                       = Sub(psi(Entry(x, c[1], c[2])), psi(RowSum(x, c[1])))
            /\ Len(g.shape) = x.nd - 1
            /\ \A r \in 1..NRows(x) :
                   g.data[r] = Sub(gammaln(RowSum(x, r)),
                                   GammalnRowSumTo(x, r, NCols(x)))

\* a batch of two plates with different sums has been given and answered
C1_Witness ==
    /\ op = "compute_moments_and_cgf"
    /\ AllPositive(arg[1])
    /\ arg[1].nd = 2
    /\ NRows(arg[1]) = 2
    /\ RowSum(arg[1], 1) # RowSum(arg[1], 2)
    /\ ret.exc = "none"

\* C2: compute_moments_and_cgf raises ValueError if and only if some entry of
\* phi is <= 0; with every entry positive it returns, whatever the mask.
C2_MomentsAndCgfRaises ==
    op = "compute_moments_and_cgf" =>
        /\ ret.exc \in {"none", "ValueError"}
        /\ (ret.exc = "ValueError") <=> ~ AllPositive(arg[1])

\* phi = [[0, 3]] was refused
C2_Witness ==
    /\ op = "compute_moments_and_cgf"
    /\ arg[1].nd = 1
    /\ arg[1].v = <<0, 3>>
    /\ ret.exc = "ValueError"

InUnitRange(x) == \A c \in Cells(x) : Entry(x, c[1], c[2]) >= 0 /\ Entry(x, c[1], c[2]) <= One

SumsToOne(x) == \A r \in 1..NRows(x) : Abs(RowSum(x, r) - One) <= Atol + RtolTimesOne

AcceptedP(x) == x.nd >= 1 /\ InUnitRange(x) /\ SumsToOne(x)

\* C3: DirichletMoments.compute_fixed_moments(p) raises ValueError exactly when
\* p is 0-dimensional, or has an entry < 0 or > 1, or has a trailing-axis sum
\* not within tolerance of 1; every other p (exact zeros included) yields a
\* 1-element list holding log(p / sum_k p), element-wise.
C3_FixedMomentsValidation ==
    op = "DirichletMoments.compute_fixed_moments" =>
        /\ ret.exc \in {"none", "ValueError"}
        /\ (ret.exc = "ValueError") <=> ~ AcceptedP(arg)
        /\ ret.exc = "none" =>
               /\ Len(ret.val) = 1
               /\ ret.val[1].shape = ShapeOf(arg)
               /\ \A c \in Cells(arg) :
                      At(ret.val[1], c[1], c[2], NCols(arg))
                          = log(Frac(Entry(arg, c[1], c[2]), RowSum(arg, c[1])))

\* p = [1, 0] was accepted and its zero entry mapped to -inf
C3_Witness ==
    /\ op = "DirichletMoments.compute_fixed_moments"
    /\ arg.nd = 1
    /\ arg.v = <<One, 0>>
    /\ ret.exc = "none"
    /\ ret.val[1].data[2] = NegInf

ValidPrior(x) == x.nd >= 1 /\ \A c \in Cells(x) : Entry(x, c[1], c[2]) >= 0

\* C4: for every valid alpha (at least 1-dimensional, entries >= 0),
\* compute_phi_from_parents(compute_fixed_moments(alpha)) is a 1-element list
\* whose element has alpha's shape and alpha's entries, whatever the mask.
C4_PhiRoundTrip ==
    (op = "compute_phi_from_parents" /\ ValidPrior(arg.alpha)) =>
        /\ ret.exc = "none"
        /\ Len(ret.val) = 1
        /\ ret.val[1].shape = ShapeOf(arg.alpha)
        /\ \A c \in Cells(arg.alpha) :
               At(ret.val[1], c[1], c[2], NCols(arg.alpha))
                   = Entry(arg.alpha, c[1], c[2])

\* a batch alpha with a zero entry went round
C4_Witness ==
    /\ op = "compute_phi_from_parents"
    /\ ValidPrior(arg.alpha)
    /\ arg.alpha.nd = 2
    /\ NRows(arg.alpha) = 2
    /\ \E c \in Cells(arg.alpha) : Entry(arg.alpha, c[1], c[2]) = 0
    /\ ret.exc = "none"

\* C5: compute_message_to_parent fails with NotImplementedError for every
\* combination of arguments and never returns a value.
C5_MessageToParentUnsupported ==
    op = "compute_message_to_parent" => ret.exc = "NotImplementedError"

\* it has been called with a valid vector as the moments
C5_Witness ==
    /\ op = "compute_message_to_parent"
    /\ arg[3][1].nd = 1
    /\ ValidPrior(arg[3][1])

\* C6: compute_fixed_moments_and_f(p) raises ValueError exactly when
\* DirichletMoments.compute_fixed_moments(p) does; when both return, u is the
\* latter's result and f is the negated trailing-axis sum of u[0].
C6_FixedMomentsAndFAgree ==
    op = "compute_fixed_moments_and_f" =>
        LET m == DirichletMoments_compute_fixed_moments(obj.moments, arg)
        IN  /\ ret.exc \in {"none", "ValueError"}
            /\ (ret.exc = "ValueError") <=> (m.exc = "ValueError")
            /\ ret.exc = "none" =>
                   LET u == ret.val[1]
                       f == ret.val[2]
                       K == NCols(arg)
                   IN  /\ u = m.val
                       /\ Len(f.shape) = arg.nd - 1
                       /\ Len(f.data) = NRows(arg)
                       /\ \A r \in 1..NRows(arg) :
                              f.data[r] = Neg(SumReal(SubSeq(u[1].data, (r - 1) * K + 1, r * K)))

\* a batch of two plates, one of them off 1 by rounding, was accepted
C6_Witness ==
    /\ op = "compute_fixed_moments_and_f"
    /\ arg.nd = 2
    /\ NRows(arg) = 2
    /\ RowSum(arg, 1) = One
    /\ RowSum(arg, 2) # One
    /\ ret.exc = "none"
    /\ ret.val[2].data[2] # Zero

\* C10: after any sequence of succeeding and failing calls the caller's array
\* and the moments objects are what they were before the first call.
C10_CallsLeaveInputsAlone ==
    /\ mem = orig.mem
    /\ obj = orig.obj

\* an ndarray p off 1 by rounding has been normalised and answered
C10_Witness ==
    /\ op = "DirichletMoments.compute_fixed_moments"
    /\ mem.arr
    /\ mem.nd = 1
    /\ RowSum(mem, 1) # One
    /\ ret.exc = "none"

\* C7: constructing a Dirichlet node from a constant prior alpha whose
\* trailing axis has length K yields a node with categories K, output dims
\* ((K,),), parent-moments dims ((K,), ()) and initial phi[0] equal to alpha;
\* construction fails with ValueError when alpha is 0-dimensional.
C7_Construction ==
    op = "Dirichlet" =>
        /\ arg.nd = 0 => (ret.exc = "ValueError" /\ ~ node.built)
        /\ ValidPrior(arg) =>
               LET K == NCols(arg)
               IN  /\ ret.exc = "none"
                   /\ node.built
                   /\ node.moments.categories = K
                   /\ node.dims = << <<K>> >>
                   /\ Len(node.parent_moments) = 1
                   /\ node.parent_moments[1].dims = << <<K>>, <<>> >>
                   /\ Len(node.phi) = 1
                   /\ node.phi[1].shape = ShapeOf(arg)
                   /\ \A c \in Cells(arg) :
                          At(node.phi[1], c[1], c[2], K) = Entry(arg, c[1], c[2])

\* a node of two categories over two plates has been built
C7_Witness ==
    /\ op = "Dirichlet"
    /\ node.built
    /\ arg.nd = 2
    /\ NRows(arg) = 2
    /\ node.moments.categories # Len(arg.v)

\* C8 as claimed: for every prior alpha that compute_fixed_moments accepts,
\* the phi a node is initialised with has every entry positive, so
\* compute_moments_and_cgf on it never raises.
C8_InitialPhiPositive ==
    (op = "initial_moments" /\ arg.accepted) =>
        /\ \A i \in 1..Len(arg.phi[1].data) : arg.phi[1].data[i] > 0
        /\ ret.exc = "none"

\* C8 amended: for every accepted prior alpha the initial phi[0] is alpha, so
\* every entry is >= 0; compute_moments_and_cgf on it raises ValueError
\* exactly when an entry is 0.
C8_InitialPhiNonNegative ==
    (op = "initial_moments" /\ arg.accepted) =>
        /\ \A i \in 1..Len(arg.phi[1].data) : arg.phi[1].data[i] >= 0
        /\ ret.exc \in {"none", "ValueError"}
        /\ (ret.exc = "ValueError")
               <=> (\E i \in 1..Len(arg.phi[1].data) : arg.phi[1].data[i] = 0)

\* an accepted prior with a zero entry among positive ones: its moments raise
C8_Witness ==
    /\ op = "initial_moments"
    /\ arg.accepted
    /\ \E i \in 1..Len(arg.phi[1].data) : arg.phi[1].data[i] = 0
    /\ \E i \in 1..Len(arg.phi[1].data) : arg.phi[1].data[i] > 0
    /\ ret.exc = "ValueError"

====
